---- MODULE Spec2Model ----
(***************************************************************************)
(* PyMonitor: the hardware metrics collectors (network, RAM, CPU, GPU),    *)
(* the aggregator HardwareMonitor.get_all_metrics and the polling worker   *)
(* MetricsWorker, modelled as state machines.                              *)
(*                                                                         *)
(* Conventions.  Python's None is the empty tuple <<>> and a present value *)
(* v is the 1-tuple <<v>>.  A float produced by a division is kept as the  *)
(* exact fraction [num, den]; fractions are compared by cross              *)
(* multiplication.  time.time() is the variable now, in whole seconds.     *)
(***************************************************************************)
EXTENDS Integers, Sequences, FiniteSets, TLC

VARIABLES
    now,              \* the wall clock read by time.time()
    platform,         \* platform.system() of the process
    wmi_imported,     \* the module-level "import wmi" bound the name
    last_bytes_sent,  \* NetworkMetricsCollector.last_bytes_sent
    last_bytes_recv,  \* NetworkMetricsCollector.last_bytes_recv
    last_time,        \* NetworkMetricsCollector.last_time
    net_metrics,      \* the mapping returned by the last network get_metrics
    net_call,         \* observation of the last network call (history)
    lhm_ram_temp_cache,  \* RAMMetricsCollector._lhm_ram_temp_cache (class attribute)
    lhm_ram_cache_time,  \* RAMMetricsCollector._lhm_ram_cache_time (class attribute)
    ram_metrics,      \* the mapping returned by the last RAM get_metrics
    ram_call,         \* observation of the last RAM call (history)
    ram_pc,           \* per calling thread: where it is in _get_lhm_ram_metrics
    ram_local,        \* per calling thread: its locals (current_time, metrics so far)
    running,          \* MetricsWorker.running
    thread,           \* MetricsWorker.thread (0 is None, else the thread's number)
    interval,         \* MetricsWorker.interval, in tenths of a second
    last_update_time, \* MetricsWorker.last_update_time
    w_pc,             \* per worker thread: where it is in _run
    w_local,          \* per worker thread: current_time and metrics of its cycle
    ui_pc,            \* where the UI thread is (MainWindow)
    refresh_rate,     \* config["appearance"]["refresh_rate"], in tenths of a second
    produced,         \* number of snapshots get_all_metrics has returned
    emit_log,         \* snapshots passed to metrics_ready.emit, in order (history)
    event_queue,      \* emitted snapshots not yet handled by the UI thread
    last_metrics,     \* MainWindow.last_metrics (0 is None)
    error_count,      \* number of error_occurred emissions
    worker_call,      \* observation of the worker: cycles begun, stop() and the emissions after it (history)
    snapshot,         \* the mapping returned by the last get_all_metrics
    agg_call,         \* observation of the last get_all_metrics call (history)
    NVIDIA_AVAILABLE, \* gpu_metrics.NVIDIA_AVAILABLE (module global)
    handle,           \* GPUMetricsCollector.handle
    gpu_call,         \* observation of the GPU collector: construction and last call (history)
    base_frequency,   \* CPUMetricsCollector.base_frequency
    cpu_call,         \* observation of the last CPU get_metrics call (history)
    boot,             \* how the import of the collector modules ended (history)
    clamp_call,       \* observation of the last start_metrics_worker call (history)
    scan_call         \* observation of the last _get_libre_hardware_metrics scan (history)

netVars == <<last_bytes_sent, last_bytes_recv, last_time, net_metrics, net_call>>
ramVars == <<lhm_ram_temp_cache, lhm_ram_cache_time, ram_metrics, ram_call, ram_pc, ram_local>>
envVars == <<platform, wmi_imported>>
workerVars == <<running, thread, interval, last_update_time, w_pc, w_local, ui_pc,
                refresh_rate, produced, emit_log, event_queue, last_metrics, error_count,
                worker_call>>
aggVars == <<snapshot, agg_call>>
gpuVars == <<NVIDIA_AVAILABLE, handle, gpu_call>>
cpuVars == <<base_frequency, cpu_call>>
bootVars == <<boot>>
fnVars == <<clamp_call, scan_call>>
vars == <<now, envVars, netVars, ramVars, workerVars, aggVars, gpuVars, cpuVars, bootVars, fnVars>>

----------------------------------------------------------------------------
(* Bounds of the model *)

StartTime == 10     \* value of time.time() when the process starts
MaxNetTicks == 3    \* seconds the clock advances in the network collector's runs
MaxBytes == 2       \* the OS byte counters range over 0..MaxBytes
MaxRamTicks == 6    \* seconds the clock advances in the RAM collector's runs
MaxSensors == 2     \* length of the sensor lists the WMI query runs over
NumRamThreads == 2  \* threads that call the RAM collector concurrently
MaxWorkerTicks == 2 \* seconds the clock advances in the worker's runs
MaxThreads == 2     \* worker threads started in one run (calls of start)
MaxSnapshots == 3   \* snapshots collected in one run
MaxErrors == 1      \* cycles that raise in one run
MaxAggTicks == 1    \* seconds the clock advances in the aggregator's runs
MaxRate == 60       \* configured refresh rates range over -MaxRate..MaxRate tenths of a second
MaxScan == 3        \* length of the sensor lists the CPU sensor scan runs over

----------------------------------------------------------------------------
(* Optional values and exact fractions *)

None == <<>>
Some(v) == <<v>>
IsNone(x) == x = <<>>
Val(x) == x[1]

Rat(n, d) == [num |-> n, den |-> d]
RatEq(a, b) == a.num * b.den = b.num * a.den
\* a <= b for fractions with positive denominators
RatLeq(a, b) == a.num * b.den <= b.num * a.den
RatNeg(a) == (a.num < 0 /\ a.den > 0) \/ (a.num > 0 /\ a.den < 0)

MB == 1024 * 1024
GB == 1024 * 1024 * 1024

Platforms == {"Windows", "Darwin", "Linux", "Other"}

Bytes == 0 .. MaxBytes

(* time passes, up to a horizon *)
Tick(horizon) ==
    /\ now < StartTime + horizon
    /\ now' = now + 1

----------------------------------------------------------------------------
(* NetworkMetricsCollector *)

NetKeys == {"upload_speed", "download_speed", "total_sent", "total_received"}

\* psutil.net_io_counters(): raises (None) or returns the two byte counters
PsutilNetResults == {None} \cup {Some([bytes_sent |-> s, bytes_recv |-> r]) : s \in Bytes, r \in Bytes}

\* _get_lhm_network_totals(): None or the two summed totals
LhmNetTotals == {None} \cup {Some([lhm_total_sent |-> s, lhm_total_recv |-> r]) : s \in {None, Some(1)}, r \in {None, Some(2)}}

LHM_WMI_AVAILABLE == platform = "Windows" /\ wmi_imported

\* an except branch that also derives the speeds from the LHM totals
NetExceptMetricsLhmSpeed(lhm) ==
    [k \in NetKeys |->
        IF platform = "Windows" /\ LHM_WMI_AVAILABLE /\ ~IsNone(lhm)
        THEN CASE k \in {"total_sent", "upload_speed"} /\ ~IsNone(Val(lhm).lhm_total_sent) ->
                      Some(Rat(Val(Val(lhm).lhm_total_sent), GB))
               [] k \in {"total_received", "download_speed"} /\ ~IsNone(Val(lhm).lhm_total_recv) ->
                      Some(Rat(Val(Val(lhm).lhm_total_recv), GB))
               [] OTHER -> None
        ELSE None]

\* the except branch of get_metrics: all keys None, totals from LHM on Windows
NetExceptMetrics(lhm) ==
    [k \in NetKeys |->
        IF platform = "Windows" /\ LHM_WMI_AVAILABLE /\ ~IsNone(lhm)
        THEN CASE k = "total_sent" /\ ~IsNone(Val(lhm).lhm_total_sent) ->
                      Some(Rat(Val(Val(lhm).lhm_total_sent), GB))
               [] k = "total_received" /\ ~IsNone(Val(lhm).lhm_total_recv) ->
                      Some(Rat(Val(Val(lhm).lhm_total_recv), GB))
               [] OTHER -> None
        ELSE None]

\* the try branch of get_metrics, when the division does not raise
NetTryMetrics(c, time_elapsed) ==
    [k \in NetKeys |->
        CASE k = "upload_speed" -> Some(Rat(c.bytes_sent - last_bytes_sent, time_elapsed * MB))
          [] k = "download_speed" -> Some(Rat(c.bytes_recv - last_bytes_recv, time_elapsed * MB))
          [] k = "total_sent" -> Some(Rat(c.bytes_sent, GB))
          [] k = "total_received" -> Some(Rat(c.bytes_recv, GB))]

\* which way the call goes: the counters are read, then the clock, then the
\* two divisions by time_elapsed * 1024 * 1024 (ZeroDivisionError when 0)
NetOutcome(psutil, current_time) ==
    IF IsNone(psutil) THEN "psutil_fail"
    ELSE IF (current_time - last_time) * MB = 0 THEN "zero_div"
    ELSE "ok"

\* a baseline update that forgets to store the timestamp
NetBaselineStaleTime(psutil, current_time) ==
    IF NetOutcome(psutil, current_time) = "ok"
    THEN [sent |-> Val(psutil).bytes_sent, recv |-> Val(psutil).bytes_recv, time |-> last_time]
    ELSE [sent |-> 0, recv |-> 0, time |-> last_time]

\* the baseline left by the call
NetBaseline(psutil, current_time) ==
    IF NetOutcome(psutil, current_time) = "ok"
    THEN [sent |-> Val(psutil).bytes_sent, recv |-> Val(psutil).bytes_recv, time |-> current_time]
    ELSE [sent |-> 0, recv |-> 0, time |-> last_time]

NetMetrics(psutil, current_time, lhm) ==
    IF NetOutcome(psutil, current_time) = "ok"
    THEN NetTryMetrics(Val(psutil), current_time - last_time)
    ELSE NetExceptMetrics(lhm)

\* what the last operation read, as the next call will see it in net_call.prev
NetReadOf(call) ==
    [ok |-> call.op \in {"init", "ok"} /\ ~IsNone(call.read),
     read |-> call.read, time |-> call.time]

NetObserve(psutil, current_time, lhm) ==
    [op |-> NetOutcome(psutil, current_time),
     lhm |-> lhm,
     read |-> IF IsNone(psutil) THEN None
              ELSE Some([sent |-> Val(psutil).bytes_sent, recv |-> Val(psutil).bytes_recv]),
     time |-> current_time,
     base |-> [sent |-> last_bytes_sent, recv |-> last_bytes_recv, time |-> last_time],
     prev |-> NetReadOf(net_call),
     good |-> IF NetReadOf(net_call).ok THEN NetReadOf(net_call) ELSE net_call.good,
     outage |-> net_call.op = "psutil_fail"]

\* a call that stores the time of the call whichever way it goes
NetGetMetricsEffectStoresTime(psutil, lhm) ==
    /\ net_metrics' = NetMetrics(psutil, now, lhm)
    /\ last_bytes_sent' = NetBaseline(psutil, now).sent
    /\ last_bytes_recv' = NetBaseline(psutil, now).recv
    /\ last_time' = now
    /\ net_call' = NetObserve(psutil, now, lhm)

\* the state change of one get_metrics call with the given inputs
NetGetMetricsEffect(psutil, lhm) ==
    /\ net_metrics' = NetMetrics(psutil, now, lhm)
    /\ last_bytes_sent' = NetBaseline(psutil, now).sent
    /\ last_bytes_recv' = NetBaseline(psutil, now).recv
    /\ last_time' = NetBaseline(psutil, now).time
    /\ net_call' = NetObserve(psutil, now, lhm)

\* the LHM totals a call can meet: they are read in the except branch only,
\* on Windows with the WMI module
NetLhmInputs(psutil, totals) ==
    IF LHM_WMI_AVAILABLE /\ IsNone(psutil) THEN totals ELSE {None}

NetGetMetrics ==
    \E psutil \in PsutilNetResults :
        \E lhm \in NetLhmInputs(psutil, LhmNetTotals) :
            NetGetMetricsEffect(psutil, lhm)

\* __init__: the initial counters (0, 0 when psutil raises) and the clock
NetInit ==
    /\ \E init \in PsutilNetResults :
        /\ last_bytes_sent = (IF IsNone(init) THEN 0 ELSE Val(init).bytes_sent)
        /\ last_bytes_recv = (IF IsNone(init) THEN 0 ELSE Val(init).bytes_recv)
        /\ net_call = [op |-> "init", lhm |-> None,
                       read |-> IF IsNone(init) THEN None
                                ELSE Some([sent |-> Val(init).bytes_sent, recv |-> Val(init).bytes_recv]),
                       time |-> now,
                       base |-> [sent |-> 0, recv |-> 0, time |-> now],
                       prev |-> [ok |-> FALSE, read |-> None, time |-> now],
                       good |-> [ok |-> FALSE, read |-> None, time |-> now],
                       outage |-> FALSE]
    /\ last_time = now
    /\ net_metrics = [k \in NetKeys |-> None]

EnvInit ==
    /\ now = StartTime
    /\ platform \in Platforms
    /\ wmi_imported = (platform = "Windows")

----------------------------------------------------------------------------
(* RAMMetricsCollector *)

RamKeys == {"total", "used", "available", "percent", "ram_temperature"}

lhm_ram_cache_ttl == 5

\* psutil.virtual_memory(): raises (None) or returns the memory figures
PsutilMemResults == {None, Some([total |-> 4, used |-> 3, available |-> 1, percent |-> 75])}

\* sensors exposed by the root\LibreHardwareMonitor namespace
LhmRamSensors ==
    {[SensorType |-> "Temperature", Name |-> "DIMM RAM", Value |-> Some(1)],
     [SensorType |-> "Temperature", Name |-> "Memory", Value |-> None],
     [SensorType |-> "Load", Name |-> "Memory", Value |-> Some(2)],
     [SensorType |-> "Temperature", Name |-> "CPU Package", Value |-> Some(3)]}

SeqsUpTo(S, n) == UNION {[1..k -> S] : k \in 0..n}

\* what wmi.WMI(namespace).query(wql) meets: an exception (None) or the sensors
LhmQueryOutcomes == {None} \cup {Some(l) : l \in SeqsUpTo(LhmRamSensors, MaxSensors)}

\* Name LIKE '%RAM%' and Name LIKE '%Memory%' over the sensor names above
NameLikeRAM(name) == name \in {"DIMM RAM"}
NameLikeMemory(name) == name \in {"Memory"}

\* WHERE SensorType='Temperature' AND Name LIKE '%RAM%' OR Name LIKE '%Memory%'
\* (AND binds tighter than OR)
WqlRamWhere(sensor) ==
    \/ (sensor.SensorType = "Temperature" /\ NameLikeRAM(sensor.Name))
    \/ NameLikeMemory(sensor.Name)

\* the loop over the results: the first Value that is not None
FirstValue(results) ==
    LET withValue == {i \in 1..Len(results) : ~IsNone(results[i].Value)}
    IN IF withValue = {} THEN None
       ELSE results[CHOOSE i \in withValue : \A j \in withValue : i <= j].Value

\* ram_temp after the query over the given sensors
LhmRamTemp(sensors) == FirstValue(SelectSeq(sensors, WqlRamWhere))

\* the cache validity test made with the caller's current_time
RamCacheValidInclusive(current_time) ==
    /\ ~IsNone(lhm_ram_temp_cache)
    /\ current_time - lhm_ram_cache_time <= lhm_ram_cache_ttl
RamCacheValid(current_time) ==
    /\ ~IsNone(lhm_ram_temp_cache)
    /\ current_time - lhm_ram_cache_time < lhm_ram_cache_ttl

\* the first part of get_metrics: the psutil figures, ram_temperature None
RamPsutilMetrics(mem) ==
    [k \in RamKeys |->
        IF k = "ram_temperature" \/ IsNone(mem) THEN None
        ELSE IF k = "percent" THEN Some(Rat(Val(mem).percent, 1))
        ELSE Some(Rat(Val(mem)[k], GB))]

\* the last part of get_metrics: a temperature that is not None is stored
RamWithTemperature(metrics, temp) ==
    IF IsNone(temp) THEN metrics ELSE [metrics EXCEPT !["ram_temperature"] = temp]

\* sensors command output matched by (DIMM|SODIMM): a temperature or nothing
LinuxRamTemps == {None, Some(1)}

RamUsesLhm == platform = "Windows" /\ wmi_imported

RamObserve(current_time, queried, raised, temp) ==
    [time |-> current_time, lhm |-> RamUsesLhm, queried |-> queried, raised |-> raised,
     temp |-> temp,
     prev |-> [called |-> ram_call.called, time |-> ram_call.time, lhm |-> ram_call.lhm,
               queried |-> ram_call.queried, temp |-> ram_call.temp],
     called |-> TRUE]

\* the call returns metrics; the thread is back outside the collector
RamReturn(th, metrics, current_time, queried, raised) ==
    /\ ram_metrics' = metrics
    /\ ram_call' = RamObserve(current_time, queried, raised, metrics["ram_temperature"])
    /\ ram_pc' = [ram_pc EXCEPT ![th] = "idle"]
    /\ ram_local' = [ram_local EXCEPT ![th] = [current_time |-> 0, metrics |-> RamPsutilMetrics(None)]]

\* the end of _get_lhm_ram_metrics, from the WMI query on: an exception leaves
\* the cache alone, a result (even None) is stored with the caller's
\* current_time
RamQueryAndStore(th, metrics, current_time, q) ==
    IF IsNone(q)
    THEN /\ UNCHANGED <<lhm_ram_temp_cache, lhm_ram_cache_time>>
         /\ RamReturn(th, metrics, current_time, TRUE, TRUE)
    ELSE /\ lhm_ram_temp_cache' = LhmRamTemp(Val(q))
         /\ lhm_ram_cache_time' = current_time
         /\ RamReturn(th, RamWithTemperature(metrics, LhmRamTemp(Val(q))), current_time, TRUE, FALSE)

\* get_metrics up to the WMI query: returns at once when the platform has no
\* LHM source or the cache is valid
RamFastPath(th, mem, lin) ==
    /\ ~(RamUsesLhm /\ ~RamCacheValid(now))
    /\ UNCHANGED <<lhm_ram_temp_cache, lhm_ram_cache_time>>
    /\ RamReturn(th,
                 RamWithTemperature(RamPsutilMetrics(mem),
                     IF RamUsesLhm THEN lhm_ram_temp_cache
                     ELSE IF platform = "Linux" THEN lin
                     ELSE None),
                 now, FALSE, FALSE)

RamThreads == 1 .. NumRamThreads

\* the inputs a call can meet in the current state: the sensors command is
\* run on Linux only, the WMI query on Windows when the cache is not valid
RamLinuxInputs == IF platform = "Linux" THEN LinuxRamTemps ELSE {None}
RamQueryInputs(outcomes) == IF RamUsesLhm /\ ~RamCacheValid(now) THEN outcomes ELSE {None}

\* the state change of one get_metrics call run from start to end
RamGetMetricsEffect(mem, lin, q) ==
    IF RamUsesLhm /\ ~RamCacheValid(now)
    THEN RamQueryAndStore(1, RamPsutilMetrics(mem), now, q)
    ELSE RamFastPath(1, mem, lin)

\* the mapping that call returns
RamMetricsOf(mem, lin, q) ==
    RamWithTemperature(RamPsutilMetrics(mem),
        IF RamUsesLhm
        THEN IF RamCacheValid(now) THEN lhm_ram_temp_cache
             ELSE IF IsNone(q) THEN None ELSE LhmRamTemp(Val(q))
        ELSE IF platform = "Linux" THEN lin
        ELSE None)

\* get_metrics run by one thread from start to end
RamGetMetrics ==
    \E mem \in PsutilMemResults, lin \in RamLinuxInputs, q \in RamQueryInputs(LhmQueryOutcomes) :
        /\ ram_pc[1] = "idle"
        /\ RamGetMetricsEffect(mem, lin, q)

\* a thread enters get_metrics and runs until it returns or issues the query
RamEnter(th) ==
    \E mem \in PsutilMemResults, lin \in RamLinuxInputs :
        /\ ram_pc[th] = "idle"
        /\ IF RamUsesLhm /\ ~RamCacheValid(now)
           THEN /\ ram_pc' = [ram_pc EXCEPT ![th] = "query"]
                /\ ram_local' = [ram_local EXCEPT ![th] =
                                    [current_time |-> now, metrics |-> RamPsutilMetrics(mem)]]
                /\ UNCHANGED <<lhm_ram_temp_cache, lhm_ram_cache_time, ram_metrics, ram_call>>
           ELSE RamFastPath(th, mem, lin)

\* the query of a thread ends; the thread stores the result and returns
RamQueryReturn(th) ==
    \E q \in LhmQueryOutcomes :
        /\ ram_pc[th] = "query"
        /\ RamQueryAndStore(th, ram_local[th].metrics, ram_local[th].current_time, q)

RamInit ==
    /\ lhm_ram_temp_cache = None
    /\ lhm_ram_cache_time = 0
    /\ ram_metrics = RamPsutilMetrics(None)
    /\ ram_call = [time |-> 0, lhm |-> FALSE, queried |-> FALSE, raised |-> FALSE, temp |-> None,
                   prev |-> [called |-> FALSE, time |-> 0, lhm |-> FALSE,
                             queried |-> FALSE, temp |-> None],
                   called |-> FALSE]
    /\ ram_pc = [th \in RamThreads |-> "idle"]
    /\ ram_local = [th \in RamThreads |-> [current_time |-> 0, metrics |-> RamPsutilMetrics(None)]]

\* a network collector constructed over counters at 1
NetInitQuiet ==
    /\ last_bytes_sent = 1
    /\ last_bytes_recv = 1
    /\ last_time = now
    /\ net_metrics = [k \in NetKeys |-> None]
    /\ net_call = [op |-> "init", lhm |-> None,
                   read |-> Some([sent |-> 1, recv |-> 1]), time |-> now,
                   base |-> [sent |-> 0, recv |-> 0, time |-> now],
                   prev |-> [ok |-> FALSE, read |-> None, time |-> now],
                   good |-> [ok |-> FALSE, read |-> None, time |-> now],
                   outage |-> FALSE]

----------------------------------------------------------------------------
(* CPUMetricsCollector.get_metrics and GPUMetricsCollector.get_metrics:    *)
(* the merge of the readings of their sources                               *)

\* a source reading: the given keys present with value v, the others None
Reading(keys, present, v) == [k \in keys |-> IF k \in present THEN Some(v) ELSE None]

CpuSourceKeys == {"frequency", "usage", "temperature", "voltage"}
CpuKeys == CpuSourceKeys \cup {"cpu_model"}

\* psutil.cpu_percent(interval=0.1): raises (None) or returns the usage
PsutilCpuPercents == {None, Some(5)}

\* for key, value in source.items(): if value is not None: metrics[key] = value
Overwrite(metrics, source) ==
    [k \in DOMAIN metrics |->
        IF k \in DOMAIN source /\ ~IsNone(source[k]) THEN source[k] ELSE metrics[k]]

\* for key, value in source.items():
\*     if metrics[key] is None and value is not None: metrics[key] = value
FillGaps(metrics, source) ==
    [k \in DOMAIN metrics |->
        IF k \in DOMAIN source /\ IsNone(metrics[k]) /\ ~IsNone(source[k])
        THEN source[k] ELSE metrics[k]]

\* CPU get_metrics: None when the call raises, else Some(mapping)
CpuGetMetrics(lhm, basic, macos, linux, percent) ==
    LET metrics == Reading(CpuKeys, {}, 0)
    IN CASE platform = "Windows" -> Some(FillGaps(Overwrite(metrics, lhm), basic))
         [] platform = "Darwin" -> Some(Overwrite(metrics, macos))
         [] platform = "Linux" -> Some(Overwrite(metrics, linux))
         [] OTHER -> IF IsNone(percent) THEN None
                     ELSE Some([metrics EXCEPT !["usage"] = percent])

\* what a CPU get_metrics call can return on the platform of the process,
\* from readings of the sources of that platform only:
\* _get_libre_hardware_metrics and _get_windows_basic_metrics,
\* _get_macos_metrics, _get_linux_metrics, or psutil.cpu_percent
CpuOutcomes ==
    LET none4 == Reading(CpuSourceKeys, {}, 0)
        none5 == Reading(CpuKeys, {}, 0)
    IN CASE platform = "Windows" ->
              {CpuGetMetrics(lhm, basic, none5, none4, None) :
                  lhm \in {Reading(CpuSourceKeys, present, 1) :
                             present \in {{}, {"temperature", "voltage"}}},
                  basic \in {Reading(CpuSourceKeys, present, 2) :
                               present \in {{}, {"usage", "frequency", "temperature"}}}}
         [] platform = "Darwin" ->
              {CpuGetMetrics(none4, none4, macos, none4, None) :
                  macos \in {Reading(CpuKeys, present, 3) :
                               present \in {{}, {"usage", "cpu_model", "frequency"}}}}
         [] platform = "Linux" ->
              {CpuGetMetrics(none4, none4, none5, linux, None) :
                  linux \in {Reading(CpuSourceKeys, present, 4) :
                               present \in {{}, {"usage", "frequency", "temperature"}}}}
         [] OTHER ->
              {CpuGetMetrics(none4, none4, none5, none4, percent) : percent \in PsutilCpuPercents}

----------------------------------------------------------------------------
(* CPUMetricsCollector: the sources of get_metrics from the calls they make *)

\* "if x:" for an Optional[float]
Truthy(x) == ~IsNone(x) /\ Val(x) # 0

\* if freq: freq.current  elif self.base_frequency: self.base_frequency
FrequencyOrBase(freq, base) ==
    IF ~IsNone(freq.value) THEN freq.value
    ELSE IF Truthy(base) THEN base
    ELSE None

\* _get_windows_basic_metrics: cpu_percent, cpu_freq and the MSAcpi query in
\* one try; percent = None stands for cpu_percent raising
WindowsBasicMetrics(percent, freq, base, temp) ==
    [k \in CpuSourceKeys |->
        CASE k = "usage" -> percent
          [] k = "frequency" ->
                IF IsNone(percent) \/ freq.raises THEN None ELSE FrequencyOrBase(freq, base)
          [] k = "temperature" ->
                IF IsNone(percent) \/ freq.raises THEN None ELSE temp
          [] OTHER -> None]

\* _get_linux_metrics
LinuxMetrics(percent, freq, base, temp) ==
    [k \in CpuSourceKeys |->
        CASE k = "usage" -> percent
          [] k = "frequency" ->
                IF IsNone(percent) \/ freq.raises THEN None ELSE FrequencyOrBase(freq, base)
          [] k = "temperature" ->
                IF IsNone(percent) \/ freq.raises THEN None ELSE temp
          [] OTHER -> None]

\* _get_macos_metrics.  model: the CPU model macOS reports and the frequency
\* estimated from it (M1, M2, M3 of system_profiler), if any
MacosMetrics(percent, model, freq, base, temp) ==
    [k \in CpuKeys |->
        CASE k = "usage" -> percent
          [] k = "cpu_model" -> IF IsNone(percent) THEN None ELSE model.cpu_model
          [] k = "frequency" ->
                IF IsNone(percent) THEN None
                ELSE IF ~IsNone(model.estimate) THEN model.estimate
                ELSE IF freq.raises THEN None
                ELSE FrequencyOrBase(freq, base)
          [] k = "temperature" ->
                IF IsNone(percent) \/ (IsNone(model.estimate) /\ freq.raises) THEN None ELSE temp
          [] OTHER -> None]

\* the inputs of one get_metrics call; only the calls the platform branch
\* makes vary.  lhm: the reading of _get_libre_hardware_metrics; percent:
\* psutil.cpu_percent; freq: psutil.cpu_freq() raises, returns None, or
\* returns the current frequency; temp: the temperature the platform's own
\* query finds (MSAcpi zones, sensors, ioreg / pmset / ...)
CpuCallInputs ==
    [lhm : {Reading(CpuSourceKeys, present, 1) :
              present \in IF platform = "Windows" /\ wmi_imported
                          THEN {{}, {"temperature", "voltage"}, {"frequency", "usage"},
                                CpuSourceKeys}
                          ELSE {{}}},
     percent : PsutilCpuPercents,
     model : IF platform = "Darwin"
             THEN {[cpu_model |-> None, estimate |-> None],
                   [cpu_model |-> Some(100), estimate |-> None],
                   [cpu_model |-> Some(101), estimate |-> Some(32)]}
             ELSE {[cpu_model |-> None, estimate |-> None]},
     freq : IF platform \in {"Windows", "Darwin", "Linux"}
            THEN {[raises |-> TRUE, value |-> None], [raises |-> FALSE, value |-> None],
                  [raises |-> FALSE, value |-> Some(24)]}
            ELSE {[raises |-> FALSE, value |-> None]},
     temp : IF platform \in {"Windows", "Darwin", "Linux"} THEN {None, Some(7)} ELSE {None}]

\* CPUMetricsCollector.get_metrics from the inputs of the call
CpuCollectResult(in, base) ==
    CpuGetMetrics(in.lhm,
                  WindowsBasicMetrics(in.percent, in.freq, base, in.temp),
                  MacosMetrics(in.percent, in.model, in.freq, base, in.temp),
                  LinuxMetrics(in.percent, in.freq, base, in.temp),
                  in.percent)

\* what the sources hold for each key, in the order get_metrics consults
\* them: the sensor source (LHM; on macOS the estimate from the model), the
\* OS-generic statistics, the base frequency
CpuSourceOrder(in, base) ==
    [k \in CpuSourceKeys |->
        <<IF platform = "Windows" THEN in.lhm[k]
          ELSE IF platform = "Darwin" /\ k = "frequency" THEN in.model.estimate
          ELSE None,
          CASE k = "usage" -> in.percent
            [] k = "frequency" -> in.freq.value
            [] k = "temperature" -> in.temp
            [] OTHER -> None,
          IF k = "frequency" /\ Truthy(base) THEN base ELSE None>>]

\* one get_metrics call of the CPU collector
CpuCollect ==
    \E in \in CpuCallInputs :
        /\ cpu_call' = [called |-> TRUE,
                        raised |-> IsNone(CpuCollectResult(in, base_frequency)),
                        sources |-> CpuSourceOrder(in, base_frequency),
                        metrics |-> IF IsNone(CpuCollectResult(in, base_frequency))
                                    THEN Reading(CpuKeys, {}, 0)
                                    ELSE Val(CpuCollectResult(in, base_frequency))]
        /\ UNCHANGED base_frequency

\* sensors the root\LibreHardwareMonitor namespace can enumerate for a CPU
LhmCpuSensors ==
    {[SensorType |-> "Temperature", Name |-> "CPU Package", Value |-> 1],
     [SensorType |-> "Temperature", Name |-> "CPU Core #1", Value |-> 2],
     [SensorType |-> "Voltage", Name |-> "CPU Core #1", Value |-> 1],
     [SensorType |-> "Voltage", Name |-> "CPU Core #2", Value |-> 2],
     [SensorType |-> "Clock", Name |-> "CPU Core #1", Value |-> 1],
     [SensorType |-> "Clock", Name |-> "CPU Core #2", Value |-> 2],
     [SensorType |-> "Load", Name |-> "CPU Total", Value |-> 1],
     [SensorType |-> "Load", Name |-> "CPU Core #1", Value |-> 2]}

\* the name test of the first branch for the sensor's type: the preferred
\* name of the key, over the sensor names above
CpuSensorPreferred(key, sensor) ==
    CASE key = "temperature" ->
            sensor.SensorType = "Temperature" /\ sensor.Name \in {"CPU Package", "Core (Tctl/Tdie)"}
      [] key = "voltage" ->
            sensor.SensorType = "Voltage" /\ sensor.Name \in {"CPU Core #1", "CPU Core #2", "CPU VCORE"}
      [] key = "frequency" ->
            sensor.SensorType = "Clock" /\ sensor.Name = "CPU Core #1"
      [] key = "usage" ->
            sensor.SensorType = "Load" /\ sensor.Name = "CPU Total"

\* the name test of the elif branch: "CPU" in sensor.Name, which every name
\* above satisfies; the Load branch has no elif
CpuSensorGeneric(key, sensor) ==
    CASE key = "temperature" -> sensor.SensorType = "Temperature"
      [] key = "voltage" -> sensor.SensorType = "Voltage"
      [] key = "frequency" -> sensor.SensorType = "Clock"
      [] key = "usage" -> FALSE

\* the for loop of _get_libre_hardware_metrics from sensor i on: a preferred
\* match is stored, and for the temperature followed by break; a generic
\* match is stored when the key is still None
RECURSIVE LhmCpuScan(_, _, _)
LhmCpuScan(sensors, i, metrics) ==
    IF i > Len(sensors) THEN metrics
    ELSE IF CpuSensorPreferred("temperature", sensors[i])
         THEN [metrics EXCEPT !["temperature"] = Some(sensors[i].Value)]
    ELSE IF \E key \in CpuSourceKeys : CpuSensorPreferred(key, sensors[i])
         THEN LhmCpuScan(sensors, i + 1,
                [key \in CpuSourceKeys |->
                    IF CpuSensorPreferred(key, sensors[i]) THEN Some(sensors[i].Value)
                    ELSE metrics[key]])
    ELSE LhmCpuScan(sensors, i + 1,
                [key \in CpuSourceKeys |->
                    IF CpuSensorGeneric(key, sensors[i]) /\ IsNone(metrics[key])
                    THEN Some(sensors[i].Value)
                    ELSE metrics[key]])

\* _get_libre_hardware_metrics: nothing off Windows or without wmi, nothing
\* when the connection or the enumeration raises (sensors = None)
LibreHardwareMetrics(sensors) ==
    IF ~(platform = "Windows" /\ wmi_imported) \/ IsNone(sensors)
    THEN Reading(CpuSourceKeys, {}, 0)
    ELSE LhmCpuScan(Val(sensors), 1, Reading(CpuSourceKeys, {}, 0))

\* the call of _get_libre_hardware_metrics over the sensors the namespace
\* holds
LhmCpuScanCall ==
    /\ ~scan_call.called
    /\ scan_call' = [scan_call EXCEPT !.called = TRUE,
                                      !.metrics = LibreHardwareMetrics(scan_call.sensors)]
    /\ UNCHANGED clamp_call


\* CPUMetricsCollector.__init__: base_frequency is what _get_base_frequency
\* returned, None on a platform it does not know
CpuInit ==
    /\ base_frequency \in IF platform \in {"Windows", "Darwin", "Linux"}
                           THEN {None, Some(30)} ELSE {None}
    /\ cpu_call = [called |-> FALSE, raised |-> FALSE,
                   sources |-> [k \in CpuSourceKeys |-> <<None, None, None>>],
                   metrics |-> Reading(CpuKeys, {}, 0)]

GpuLhmKeys == {"core_frequency", "core_usage", "core_temperature", "memory_frequency",
               "vram_usage_percent", "memory_temperature", "hotspot_temperature", "fan_speed"}
GpuKeys == GpuLhmKeys \cup {"vram_used_gb", "vram_total_gb"}

GpuOptionalKeys == {"memory_temperature", "hotspot_temperature", "fan_speed"}

\* for key, value in source.items():
\*     if metrics.get(key) is None and value is not None: metrics[key] = value
\*     elif key not in metrics and value is not None: metrics[key] = value
GpuFillOverwrite(metrics, source) ==
    [k \in DOMAIN metrics \cup {key \in DOMAIN source : ~IsNone(source[key])} |->
        IF k \in DOMAIN source /\ ~IsNone(source[k]) THEN source[k] ELSE metrics[k]]
GpuFill(metrics, source) ==
    [k \in DOMAIN metrics \cup {key \in DOMAIN source : ~IsNone(source[key])} |->
        IF k \in DOMAIN source /\ ~IsNone(source[k]) /\ (k \notin DOMAIN metrics \/ IsNone(metrics[k]))
        THEN source[k] ELSE metrics[k]]

\* GPU get_metrics: the NVIDIA reading completed by the platform's source
GpuGetMetrics(nvidia, extra) ==
    IF platform \in {"Windows", "Darwin", "Linux"} THEN GpuFill(nvidia, extra) ELSE nvidia

\* what a GPU get_metrics call can return on the platform of the process
\* from readings of _get_nvidia_metrics (nothing, or all but the optional
\* reads) and of _get_lhm_metrics, _get_macos_gpu_metrics or
\* _get_linux_gpu_metrics
GpuOutcomes ==
    LET extras ==
          CASE platform = "Windows" ->
                 {Reading(GpuLhmKeys, present, 2) : present \in {{}, {"core_temperature", "fan_speed"}}}
            [] platform = "Darwin" ->
                 {Reading(GpuKeys, present, 3) : present \in {{}, {"vram_total_gb", "core_usage"}}}
            [] platform = "Linux" ->
                 {Reading(GpuKeys, present, 4) : present \in {{}, {"core_temperature", "core_usage"}}}
            [] OTHER -> {Reading(GpuLhmKeys, {}, 0)}
    IN {GpuGetMetrics(nvidia, extra) :
            nvidia \in {Reading(GpuKeys, present, 1) : present \in {{}, GpuKeys \ GpuOptionalKeys}},
            extra \in extras}

----------------------------------------------------------------------------
(* GPUMetricsCollector: construction and the sources of get_metrics.  The  *)
(* values of a GPU reading are fractions.                                   *)

\* a source reading: the given keys present with the float v, the others None
RatReading(keys, present, v) == [k \in keys |-> IF k \in present THEN Some(Rat(v, 1)) ELSE None]

\* the float n / d of two integers, kept in lowest terms
RECURSIVE Gcd(_, _)
Gcd(a, b) == IF b = 0 THEN a ELSE Gcd(b, a % b)
RatDiv(n, d) == Rat(n \div Gcd(n, d), d \div Gcd(n, d))

\* module level: NVIDIA_AVAILABLE after "import pynvml; pynvml.nvmlInit()"
\* inside try / bare except
GpuModuleInit(nvml) == nvml = "ok"

\* __init__: the handle and the global flag after the acquisition
GpuConstructKeepsAvailable(available, acquire) ==
    [NVIDIA_AVAILABLE |-> available /\ acquire \in {"ok", "error"},
     handle |-> IF available /\ acquire = "ok" THEN Some(1) ELSE None]
GpuConstruct(available, acquire) ==
    [NVIDIA_AVAILABLE |-> available /\ acquire = "ok",
     handle |-> IF available /\ acquire = "ok" THEN Some(1) ELSE None]

\* what the vendor library does in one call: the first of the five reads
\* outside an inner try that raises (0: none), the used and total bytes of
\* nvmlDeviceGetMemoryInfo, and the optional reads that succeed (they are
\* made only after the five reads returned).  Without a handle no read is
\* made and nothing varies.
NvidiaInputs(h) ==
    IF IsNone(h) THEN {[fail_at |-> 0, mem |-> [used |-> 0, total |-> 0], optional |-> {}]}
    ELSE [fail_at : {0},
          mem : {[used |-> GB \div 2, total |-> GB], [used |-> GB, total |-> GB]},
          optional : SUBSET GpuOptionalKeys]
         \cup [fail_at : 0 .. 5, mem : {[used |-> 0, total |-> 0]}, optional : {{}}]
         \cup [fail_at : 1 .. 5,
               mem : {[used |-> GB \div 2, total |-> GB], [used |-> GB, total |-> GB]},
               optional : {{}}]

\* read number i (temperature, utilization, graphics clock, memory info,
\* memory clock) was made and returned
NvidiaReadDone(in, i) ==
    /\ in.fail_at = 0 \/ i < in.fail_at
    /\ i > 4 => in.mem.total # 0

\* the optional read of key k (memory temperature, hotspot temperature, fan
\* speed, each in a try of its own) was made and returned
NvidiaOptionalReadAborts(in, k) ==
    /\ NvidiaReadDone(in, 5)
    /\ CASE k = "memory_temperature" -> {k} \subseteq in.optional
         [] k = "hotspot_temperature" -> {"memory_temperature", k} \subseteq in.optional
         [] OTHER -> GpuOptionalKeys \subseteq in.optional
NvidiaOptionalRead(in, k) ==
    /\ NvidiaReadDone(in, 5)
    /\ k \in in.optional

\* _get_nvidia_metrics
NvidiaMetricsPercentAsRatio(h, in) ==
    [k \in GpuKeys |->
        IF IsNone(h) THEN None
        ELSE CASE k = "core_temperature" -> IF NvidiaReadDone(in, 1) THEN Some(Rat(1, 1)) ELSE None
               [] k = "core_usage" -> IF NvidiaReadDone(in, 2) THEN Some(Rat(1, 1)) ELSE None
               [] k = "core_frequency" -> IF NvidiaReadDone(in, 3) THEN Some(Rat(1, 1)) ELSE None
               [] k = "vram_usage_percent" ->
                    IF NvidiaReadDone(in, 4) /\ in.mem.total # 0
                    THEN Some(RatDiv(in.mem.used, in.mem.total)) ELSE None
               [] k = "vram_used_gb" ->
                    IF NvidiaReadDone(in, 4) /\ in.mem.total # 0
                    THEN Some(RatDiv(in.mem.used, GB)) ELSE None
               [] k = "vram_total_gb" ->
                    IF NvidiaReadDone(in, 4) /\ in.mem.total # 0
                    THEN Some(RatDiv(in.mem.total, GB)) ELSE None
               [] k = "memory_frequency" -> IF NvidiaReadDone(in, 5) THEN Some(Rat(1, 1)) ELSE None
               [] OTHER -> IF NvidiaOptionalRead(in, k) THEN Some(Rat(1, 1)) ELSE None]
NvidiaMetrics(h, in) ==
    [k \in GpuKeys |->
        IF IsNone(h) THEN None
        ELSE CASE k = "core_temperature" -> IF NvidiaReadDone(in, 1) THEN Some(Rat(1, 1)) ELSE None
               [] k = "core_usage" -> IF NvidiaReadDone(in, 2) THEN Some(Rat(1, 1)) ELSE None
               [] k = "core_frequency" -> IF NvidiaReadDone(in, 3) THEN Some(Rat(1, 1)) ELSE None
               [] k = "vram_usage_percent" ->
                    IF NvidiaReadDone(in, 4) /\ in.mem.total # 0
                    THEN Some(Rat(RatDiv(in.mem.used, in.mem.total).num * 100,
                                  RatDiv(in.mem.used, in.mem.total).den))
                    ELSE None
               [] k = "vram_used_gb" ->
                    IF NvidiaReadDone(in, 4) /\ in.mem.total # 0
                    THEN Some(RatDiv(in.mem.used, GB)) ELSE None
               [] k = "vram_total_gb" ->
                    IF NvidiaReadDone(in, 4) /\ in.mem.total # 0
                    THEN Some(RatDiv(in.mem.total, GB)) ELSE None
               [] k = "memory_frequency" -> IF NvidiaReadDone(in, 5) THEN Some(Rat(1, 1)) ELSE None
               [] OTHER -> IF NvidiaOptionalRead(in, k) THEN Some(Rat(1, 1)) ELSE None]

\* number of vendor-library reads _get_nvidia_metrics makes
NvmlReads(h, in) ==
    IF IsNone(h) THEN 0
    ELSE IF in.fail_at # 0 /\ (in.fail_at <= 4 \/ in.mem.total = 0) THEN
            IF in.fail_at <= 4 THEN in.fail_at ELSE 4
    ELSE IF in.mem.total = 0 THEN 4
    ELSE IF in.fail_at = 5 THEN 5
    ELSE 8

\* _get_macos_gpu_metrics.  profiler: system_profiler SPDisplaysDataType
\* raises (None), or gives the chipset model and the VRAM line; activity: the
\* "GPU Activity" of ioreg
MacosGpuMetrics(profiler, activity) ==
    [k \in GpuKeys |->
        IF IsNone(profiler) THEN None
        ELSE CASE k = "vram_total_gb" ->
                    IF IsNone(Val(profiler).vram) THEN None
                    ELSE IF Val(Val(profiler).vram).unit = "MB"
                         THEN Some(Rat(Val(Val(profiler).vram).amount, 1024))
                         ELSE Some(Rat(Val(Val(profiler).vram).amount, 1))
               [] k = "core_usage" ->
                    IF Val(profiler).model = "amd" /\ ~IsNone(activity)
                    THEN Some(Rat(Val(activity), 1)) ELSE None
               [] OTHER -> None]

\* _get_linux_gpu_metrics.  lspci: the vendor the if / elif chain finds
\* first; rocm: rocm-smi fails (None) or what its three regular expressions
\* match; edge: the "edge" temperature of sensors; busy: gpu_busy_percent
LinuxGpuMetrics(lspci, rocm, edge, busy) ==
    [k \in GpuKeys |->
        CASE lspci = "amd" /\ k = "core_temperature" ->
                IF ~IsNone(rocm) /\ ~IsNone(Val(rocm).temp) THEN Some(Rat(Val(Val(rocm).temp), 1))
                ELSE IF ~IsNone(edge) THEN Some(Rat(Val(edge), 1))
                ELSE None
          [] lspci = "amd" /\ k = "core_usage" ->
                IF ~IsNone(rocm) /\ ~IsNone(Val(rocm).usage) THEN Some(Rat(Val(Val(rocm).usage), 1))
                ELSE None
          [] lspci = "amd" /\ k = "vram_used_gb" ->
                IF ~IsNone(rocm) /\ ~IsNone(Val(rocm).vram)
                THEN Some(Rat(Val(Val(rocm).vram).used_mb, 1024)) ELSE None
          [] lspci = "amd" /\ k = "vram_total_gb" ->
                IF ~IsNone(rocm) /\ ~IsNone(Val(rocm).vram)
                THEN Some(Rat(Val(Val(rocm).vram).total_mb, 1024)) ELSE None
          [] lspci = "amd" /\ k = "vram_usage_percent" ->
                IF ~IsNone(rocm) /\ ~IsNone(Val(rocm).vram) /\ Val(Val(rocm).vram).total_mb > 0
                THEN Some(Rat(Val(Val(rocm).vram).used_mb * 100, Val(Val(rocm).vram).total_mb))
                ELSE None
          [] lspci = "intel" /\ k = "core_usage" ->
                IF ~IsNone(busy) THEN Some(Rat(Val(busy), 1)) ELSE None
          [] OTHER -> None]

\* the readings the platform's own source can return in one call
GpuExtraReadings ==
    CASE platform = "Windows" ->
            \* _get_lhm_metrics, by the sensors the namespace exposes
            {RatReading(GpuLhmKeys, present, 2) :
                present \in IF LHM_WMI_AVAILABLE
                            THEN {{}, {"core_temperature", "fan_speed"},
                                  {"vram_usage_percent", "core_usage", "core_temperature"},
                                  GpuLhmKeys}
                            ELSE {{}}}
      [] platform = "Darwin" ->
            {MacosGpuMetrics(profiler, activity) :
                profiler \in {None} \cup
                    {Some([model |-> mdl, vram |-> v]) :
                        mdl \in {"none", "intel", "amd"},
                        v \in {None, Some([amount |-> 512, unit |-> "MB"]),
                               Some([amount |-> 4, unit |-> "GB"])}},
                activity \in {None, Some(3)}}
      [] platform = "Linux" ->
            {LinuxGpuMetrics(lspci, rocm, edge, busy) :
                lspci \in {"fail", "nvidia", "amd", "intel", "other"},
                rocm \in {None} \cup
                    {Some([temp |-> t, usage |-> u, vram |-> v]) :
                        t \in {None, Some(4)}, u \in {None, Some(4)},
                        v \in {None, Some([used_mb |-> 1, total_mb |-> 4]),
                               Some([used_mb |-> 0, total_mb |-> 0])}},
                edge \in {None, Some(5)},
                busy \in {None, Some(6)}}
      [] OTHER -> {RatReading(GpuLhmKeys, {}, 0)}

\* GPUMetricsCollector.get_metrics over its sources
GpuCollect ==
    \E in \in NvidiaInputs(handle), extra \in GpuExtraReadings :
        /\ gpu_call' = [gpu_call EXCEPT !.called = TRUE,
                                        !.nvml_reads = NvmlReads(handle, in),
                                        !.nvidia = NvidiaMetrics(handle, in),
                                        !.mandatory = ~IsNone(handle) /\ NvidiaReadDone(in, 5),
                                        !.optional = in.optional,
                                        !.extra = extra,
                                        !.metrics = GpuGetMetrics(NvidiaMetrics(handle, in), extra)]
        /\ UNCHANGED <<NVIDIA_AVAILABLE, handle>>

\* the import of gpu_metrics and GPUMetricsCollector.__init__, where
\* pynvml.nvmlDeviceGetHandleByIndex(0) is tried when NVIDIA_AVAILABLE
GpuInit ==
    \E nvml \in {"import_error", "init_error", "ok"} :
        \E acquire \in IF GpuModuleInit(nvml)
                        THEN {"ok", "driver_not_loaded", "no_permission", "error"}
                        ELSE {"not_tried"} :
            /\ NVIDIA_AVAILABLE = GpuConstruct(GpuModuleInit(nvml), acquire).NVIDIA_AVAILABLE
            /\ handle = GpuConstruct(GpuModuleInit(nvml), acquire).handle
            /\ gpu_call = [called |-> FALSE, nvml |-> nvml, acquire |-> acquire, nvml_reads |-> 0,
                           mandatory |-> FALSE, optional |-> {},
                           nvidia |-> Reading(GpuKeys, {}, 0), extra |-> Reading(GpuLhmKeys, {}, 0),
                           metrics |-> Reading(GpuKeys, {}, 0)]

\* a GPU collector whose vendor handle was acquired, not yet called
GpuInitQuiet ==
    /\ NVIDIA_AVAILABLE = TRUE
    /\ handle = Some(1)
    /\ gpu_call = [called |-> FALSE, nvml |-> "ok", acquire |-> "ok", nvml_reads |-> 0,
                           mandatory |-> FALSE, optional |-> {},
                   nvidia |-> Reading(GpuKeys, {}, 0), extra |-> Reading(GpuLhmKeys, {}, 0),
                   metrics |-> Reading(GpuKeys, {}, 0)]

\* a CPU collector without a base frequency, not yet called
CpuInitQuiet ==
    /\ base_frequency = None
    /\ cpu_call = [called |-> FALSE, raised |-> FALSE,
                   sources |-> [k \in CpuSourceKeys |-> <<None, None, None>>],
                   metrics |-> Reading(CpuKeys, {}, 0)]

\* the collector modules were imported without an error
\* no start_metrics_worker call and no sensor scan observed yet
FnInitQuiet ==
    /\ clamp_call = [called |-> FALSE]
    /\ scan_call = [called |-> FALSE]

BootInitQuiet ==
    boot = [wmi_installed |-> wmi_imported, imported |-> 4, constructed |-> TRUE, error |-> "none"]

----------------------------------------------------------------------------
(* HardwareMonitor.get_all_metrics *)

Categories == {"cpu", "gpu", "ram", "network"}

CategoryKeys(c) ==
    CASE c = "cpu" -> CpuKeys
      [] c = "gpu" -> GpuKeys
      [] c = "ram" -> RamKeys
      [] c = "network" -> NetKeys

\* the body of the try block when no collector raises: the four collectors
\* are called in turn and their mappings assembled
GetAllMetricsTry(cpu, gpu, mem, lin, q, psutil, lhmnet) ==
    /\ RamGetMetricsEffect(mem, lin, q)
    /\ NetGetMetricsEffect(psutil, lhmnet)
    /\ snapshot' = [c \in Categories |->
                       CASE c = "cpu" -> Val(cpu)
                         [] c = "gpu" -> gpu
                         [] c = "ram" -> RamMetricsOf(mem, lin, q)
                         [] c = "network" -> NetMetrics(psutil, now, lhmnet)]

\* the except branch: the CPU collector, called first, raised; the other
\* collectors were not called and four empty mappings are returned
GetAllMetricsExcept ==
    /\ UNCHANGED <<netVars, ramVars>>
    /\ snapshot' = [c \in Categories |-> [k \in {} |-> None]]

\* how the call ends when the collectors in raised raised: without a raise
\* the try block returns; a raise is an Exception, which "except Exception"
\* catches, and the handler returns
AggOutcomeNoHandler(raised) == IF raised = {} THEN "returned" ELSE "raised"
AggOutcome(raised) == "returned"

GetAllMetrics ==
    \E cpu \in CpuOutcomes, gpu \in GpuOutcomes,
       mem \in PsutilMemResults, lin \in RamLinuxInputs,
       q \in RamQueryInputs({None, Some(<<>>),
                             Some(<<[SensorType |-> "Temperature", Name |-> "DIMM RAM",
                                     Value |-> Some(1)]>>)}),
       psutil \in {None, Some([bytes_sent |-> 1, bytes_recv |-> 1])} :
        \E lhmnet \in NetLhmInputs(psutil,
                        {None, Some([lhm_total_sent |-> Some(1), lhm_total_recv |-> Some(2)])}) :
            /\ IF IsNone(cpu)
               THEN GetAllMetricsExcept
               ELSE GetAllMetricsTry(cpu, gpu, mem, lin, q, psutil, lhmnet)
            /\ agg_call' = [called |-> TRUE,
                            raised |-> IF IsNone(cpu) THEN {"cpu"} ELSE {},
                            invoked |-> IF IsNone(cpu) THEN {"cpu"} ELSE Categories,
                            outcome |-> AggOutcome(IF IsNone(cpu) THEN {"cpu"} ELSE {}),
                            would |-> [c \in Categories \ {"cpu"} |->
                                         CASE c = "gpu" -> gpu
                                           [] c = "ram" -> RamMetricsOf(mem, lin, q)
                                           [] c = "network" -> NetMetrics(psutil, now, lhmnet)]]

\* HardwareMonitor.__init__: no snapshot has been returned yet
AggInit ==
    /\ snapshot = [c \in Categories |-> Reading(CategoryKeys(c), {}, 0)]
    /\ agg_call = [called |-> FALSE, raised |-> {}, invoked |-> {}, outcome |-> "none",
                   would |-> [c \in Categories \ {"cpu"} |-> Reading(CategoryKeys(c), {}, 0)]]

----------------------------------------------------------------------------
(* MetricsWorker and the MainWindow operations that drive it.  Durations   *)
(* are in tenths of a second, the clock in seconds.                        *)

WorkerThreads == 1 .. MaxThreads

\* refresh rates found in the configuration (tenths of a second)
RefreshRates == {0, 10, 20, 60}

Min2(a, b) == IF a <= b THEN a ELSE b
Max2(a, b) == IF a >= b THEN a ELSE b

\* start_metrics_worker: interval = max(0.1, min(interval, 5.0))
ClampInterval(rate) == Max2(1, Min2(rate, 50))

IsAlive(th) == th # 0 /\ w_pc[th] \notin {"unborn", "dead"}

NoCycle == [current_time |-> 0, metrics |-> 0]

\* MetricsWorker.start(interval)
WorkerStart(new_interval) ==
    /\ \E th \in WorkerThreads :
        /\ w_pc[th] = "unborn"
        /\ \A other \in WorkerThreads : other < th => w_pc[other] # "unborn"
        /\ thread' = th
        /\ w_pc' = [w_pc EXCEPT ![th] = "while"]
    /\ interval' = new_interval
    /\ running' = TRUE
    /\ last_update_time' = 0
    /\ worker_call' = [worker_call EXCEPT !.stopped = FALSE, !.after_stop = <<>>]

\* MetricsWorker.stop() up to the join: running is cleared
WorkerStop ==
    /\ running' = FALSE
    /\ worker_call' = [worker_call EXCEPT !.stopped = TRUE, !.after_stop = <<>>]

\* MainWindow.__init__ ends with start_metrics_worker(): restart is False
StartMetricsWorker ==
    /\ ui_pc = "constructing"
    /\ WorkerStart(ClampInterval(refresh_rate))
    /\ ui_pc' = "idle"
    /\ UNCHANGED <<w_local, refresh_rate, produced, emit_log, event_queue, last_metrics, error_count>>

\* update_config: the new configuration, then start_metrics_worker(restart=True);
\* stop() clears running and joins the thread if it is alive, start() follows
UpdateConfig ==
    \E rate \in RefreshRates :
        /\ ui_pc = "idle"
        /\ \E th \in WorkerThreads : w_pc[th] = "unborn"
        /\ refresh_rate' = rate
        /\ IF running /\ IsAlive(thread)
           THEN /\ WorkerStop
                /\ ui_pc' = "join_restart"
                /\ UNCHANGED <<thread, interval, last_update_time, w_pc>>
           ELSE /\ WorkerStart(ClampInterval(rate))
                /\ UNCHANGED ui_pc
        /\ UNCHANGED <<w_local, produced, emit_log, event_queue, last_metrics, error_count>>

\* exit_app: stop(), then the application quits
ExitApp ==
    /\ ui_pc = "idle"
    /\ WorkerStop
    /\ ui_pc' = IF IsAlive(thread) THEN "join_exit" ELSE "exited"
    /\ UNCHANGED <<thread, interval, last_update_time, w_pc, w_local, refresh_rate,
                   produced, emit_log, event_queue, last_metrics, error_count>>

\* what follows thread.join(timeout=1.0) in the operation under way
AfterJoin ==
    IF ui_pc = "join_restart"
    THEN /\ WorkerStart(ClampInterval(refresh_rate))
         /\ ui_pc' = "idle"
    ELSE /\ ui_pc' = "exited"
         /\ UNCHANGED <<running, thread, interval, last_update_time, w_pc, worker_call>>

\* join returns because the thread has ended
JoinReturn ==
    /\ ui_pc \in {"join_restart", "join_exit"}
    /\ ~IsAlive(thread)
    /\ AfterJoin
    /\ UNCHANGED <<w_local, refresh_rate, produced, emit_log, event_queue, last_metrics, error_count>>

\* join returns after 1.0 s while the thread is still inside get_all_metrics
JoinTimeout ==
    /\ ui_pc \in {"join_restart", "join_exit"}
    /\ IsAlive(thread)
    /\ w_pc[thread] = "collect"
    /\ AfterJoin
    /\ UNCHANGED <<w_local, refresh_rate, produced, emit_log, event_queue, last_metrics, error_count>>

\* on_metrics_ready, run by the UI thread for the oldest queued snapshot
OnMetricsReady ==
    /\ ui_pc = "idle"
    /\ event_queue # <<>>
    /\ last_metrics' = Head(event_queue)
    /\ event_queue' = Tail(event_queue)
    /\ UNCHANGED <<running, thread, interval, last_update_time, w_pc, w_local, ui_pc,
                   refresh_rate, produced, emit_log, error_count, worker_call>>

\* _run: the while test, the clock and the test whether a collection is due
WorkerLoopAlwaysDue(th) ==
    /\ w_pc[th] = "while"
    /\ ui_pc # "exited"
    /\ IF ~running THEN
            /\ w_pc' = [w_pc EXCEPT ![th] = "dead"]
            /\ UNCHANGED <<w_local, worker_call>>
       ELSE
            /\ produced < MaxSnapshots
            /\ w_pc' = [w_pc EXCEPT ![th] = "collect"]
            /\ w_local' = [w_local EXCEPT ![th] = [current_time |-> now, metrics |-> 0]]
            /\ worker_call' = [worker_call EXCEPT !.cycles = @ + 1]
    /\ UNCHANGED <<running, thread, interval, last_update_time, ui_pc, refresh_rate,
                   produced, emit_log, event_queue, last_metrics, error_count>>
WorkerLoop(th) ==
    /\ w_pc[th] = "while"
    /\ ui_pc # "exited"
    /\ IF ~running THEN
            /\ w_pc' = [w_pc EXCEPT ![th] = "dead"]
            /\ UNCHANGED <<w_local, worker_call>>
       ELSE IF (now - last_update_time) * 10 >= interval THEN
            /\ produced < MaxSnapshots
            /\ w_pc' = [w_pc EXCEPT ![th] = "collect"]
            /\ w_local' = [w_local EXCEPT ![th] = [current_time |-> now, metrics |-> 0]]
            /\ worker_call' = [worker_call EXCEPT !.cycles = @ + 1]
       ELSE
            /\ w_pc' = [w_pc EXCEPT ![th] = "sleep"]
            /\ UNCHANGED <<w_local, worker_call>>
    /\ UNCHANGED <<running, thread, interval, last_update_time, ui_pc, refresh_rate,
                   produced, emit_log, event_queue, last_metrics, error_count>>

\* _run: get_all_metrics returns the next snapshot, identified here by its
\* ordinal; what the call does to the collectors is GetAllMetrics
WorkerCollect(th) ==
    /\ w_pc[th] = "collect"
    /\ ui_pc # "exited"
    /\ produced' = produced + 1
    /\ w_local' = [w_local EXCEPT ![th].metrics = produced + 1]
    /\ w_pc' = [w_pc EXCEPT ![th] = "emit"]
    /\ UNCHANGED <<running, thread, interval, last_update_time, ui_pc, refresh_rate,
                   emit_log, event_queue, last_metrics, error_count, worker_call>>

\* _run: the try body raises; error_occurred is emitted, last_update_time stays
WorkerCollectRaisesNoExcept(th) ==
    /\ w_pc[th] = "collect"
    /\ ui_pc # "exited"
    /\ error_count < MaxErrors
    /\ error_count' = error_count + 1
    /\ w_local' = [w_local EXCEPT ![th] = NoCycle]
    /\ w_pc' = [w_pc EXCEPT ![th] = "dead"]
    /\ UNCHANGED <<running, thread, interval, last_update_time, ui_pc, refresh_rate,
                   produced, emit_log, event_queue, last_metrics, worker_call>>

WorkerCollectRaises(th) ==
    /\ w_pc[th] = "collect"
    /\ ui_pc # "exited"
    /\ error_count < MaxErrors
    /\ error_count' = error_count + 1
    /\ w_local' = [w_local EXCEPT ![th] = NoCycle]
    /\ w_pc' = [w_pc EXCEPT ![th] = "sleep"]
    /\ UNCHANGED <<running, thread, interval, last_update_time, ui_pc, refresh_rate,
                   produced, emit_log, event_queue, last_metrics, worker_call>>

\* _run: metrics_ready.emit(metrics), then last_update_time = current_time
WorkerEmit(th) ==
    /\ w_pc[th] = "emit"
    /\ ui_pc # "exited"
    /\ emit_log' = Append(emit_log, w_local[th].metrics)
    /\ event_queue' = Append(event_queue, w_local[th].metrics)
    /\ last_update_time' = w_local[th].current_time
    /\ w_local' = [w_local EXCEPT ![th] = NoCycle]
    /\ w_pc' = [w_pc EXCEPT ![th] = "sleep"]
    /\ worker_call' = [worker_call EXCEPT !.after_stop =
                          IF worker_call.stopped THEN Append(@, th) ELSE @]
    /\ UNCHANGED <<running, thread, interval, ui_pc, refresh_rate, produced,
                   last_metrics, error_count>>

\* _run: time.sleep(sleep_time) ends, at most 0.1 s after it began
WorkerSleep(th) ==
    /\ w_pc[th] = "sleep"
    /\ ui_pc # "exited"
    /\ w_pc' = [w_pc EXCEPT ![th] = "while"]
    /\ UNCHANGED <<running, thread, interval, last_update_time, w_local, ui_pc, refresh_rate,
                   produced, emit_log, event_queue, last_metrics, error_count, worker_call>>

\* MetricsWorker.__init__ and the start of MainWindow.__init__
WorkerInit ==
    /\ running = FALSE
    /\ thread = 0
    /\ interval = 10
    /\ last_update_time = 0
    /\ w_pc = [th \in WorkerThreads |-> "unborn"]
    /\ w_local = [th \in WorkerThreads |-> NoCycle]
    /\ ui_pc = "constructing"
    /\ refresh_rate \in RefreshRates
    /\ produced = 0
    /\ emit_log = <<>>
    /\ event_queue = <<>>
    /\ last_metrics = 0
    /\ error_count = 0
    /\ worker_call = [cycles |-> 0, stopped |-> FALSE, after_stop |-> <<>>]

\* a worker that is constructed and never started
WorkerInitQuiet ==
    /\ WorkerInit
    /\ refresh_rate = 10

----------------------------------------------------------------------------
(* The network collector on its own *)

InitNet == EnvInit /\ NetInit /\ RamInit /\ WorkerInitQuiet /\ AggInit /\ GpuInitQuiet /\ CpuInitQuiet /\ BootInitQuiet /\ FnInitQuiet

NextNet ==
    \/ Tick(MaxNetTicks) /\ UNCHANGED <<envVars, netVars, ramVars, workerVars, aggVars, gpuVars, cpuVars, bootVars, fnVars>>
    \/ NetGetMetrics /\ UNCHANGED <<now, envVars, ramVars, workerVars, aggVars, gpuVars, cpuVars, bootVars, fnVars>>

SpecNet == InitNet /\ [][NextNet]_vars

(* C21: in a get_metrics call in which psutil.net_io_counters raised, both  *)
(* speeds are absent, and each total is exactly what the LHM fallback       *)
(* supplied in that call, absent when it supplied none.                     *)
C21_OutageCycleResult ==
    net_call.op = "psutil_fail"
    => /\ IsNone(net_metrics["upload_speed"])
       /\ IsNone(net_metrics["download_speed"])
       /\ net_metrics["total_sent"] =
            (IF ~IsNone(net_call.lhm) /\ ~IsNone(Val(net_call.lhm).lhm_total_sent)
             THEN Some(Rat(Val(Val(net_call.lhm).lhm_total_sent), GB)) ELSE None)
       /\ net_metrics["total_received"] =
            (IF ~IsNone(net_call.lhm) /\ ~IsNone(Val(net_call.lhm).lhm_total_recv)
             THEN Some(Rat(Val(Val(net_call.lhm).lhm_total_recv), GB)) ELSE None)

\* an outage call in which the LHM fallback supplied both totals
C21_Witness ==
    /\ net_call.op = "psutil_fail"
    /\ ~IsNone(net_metrics["total_sent"])
    /\ ~IsNone(net_metrics["total_received"])

(* C28: a get_metrics call in which psutil.net_io_counters raised leaves    *)
(* last_bytes_sent and last_bytes_recv at 0 and last_time as it was before  *)
(* the call: the time of the last successful call, or of construction.      *)
C28_FailedCycleBaseline ==
    net_call.op = "psutil_fail"
    => /\ last_bytes_sent = 0
       /\ last_bytes_recv = 0
       /\ last_time = net_call.base.time
       /\ last_time = (IF net_call.good.ok THEN net_call.good.time ELSE StartTime)

\* a failed call made later than a successful one that stored counters and
\* its time
C28_Witness ==
    /\ net_call.op = "psutil_fail"
    /\ net_call.good.ok
    /\ net_call.base.sent > 0
    /\ net_call.base.time > StartTime
    /\ now > last_time

\* the counters read by the last call and by the operation before it
NetCur == Val(net_call.read)
NetPrev == Val(net_call.prev.read)
NetGood == Val(net_call.good.read)

(* C3: a successful call that follows a successful read (a call, or the     *)
(* construction) at an earlier time with counters that did not decrease     *)
(* reports upload_speed = (sent_now - sent_prev)/(t_now - t_prev)/1024^2,   *)
(* download_speed likewise, and leaves the reading just made as baseline.   *)
C3_SpeedSincePreviousCall ==
    (/\ net_call.op = "ok"
     /\ net_call.prev.ok
     /\ net_call.time > net_call.prev.time
     /\ NetCur.sent >= NetPrev.sent
     /\ NetCur.recv >= NetPrev.recv)
    => /\ ~IsNone(net_metrics["upload_speed"])
       /\ RatEq(Val(net_metrics["upload_speed"]),
                Rat(NetCur.sent - NetPrev.sent, (net_call.time - net_call.prev.time) * MB))
       /\ ~IsNone(net_metrics["download_speed"])
       /\ RatEq(Val(net_metrics["download_speed"]),
                Rat(NetCur.recv - NetPrev.recv, (net_call.time - net_call.prev.time) * MB))
       /\ last_bytes_sent = NetCur.sent
       /\ last_bytes_recv = NetCur.recv
       /\ last_time = net_call.time

\* a second successful call in a row, more than one second after the first,
\* with traffic in both directions
C3_Witness ==
    /\ net_call.op = "ok"
    /\ net_call.prev.ok
    /\ net_call.prev.time > StartTime
    /\ net_call.time > net_call.prev.time + 1
    /\ NetCur.sent > NetPrev.sent
    /\ NetCur.recv > NetPrev.recv

(* C4: a call that reads a sent (received) counter below the stored         *)
(* baseline reports an absent upload (download) speed, and no reported      *)
(* speed is ever negative.                                                  *)
C4_RollbackReportsAbsent ==
    /\ (net_call.op # "init" /\ ~IsNone(net_call.read) /\ NetCur.sent < net_call.base.sent)
          => IsNone(net_metrics["upload_speed"])
    /\ (net_call.op # "init" /\ ~IsNone(net_call.read) /\ NetCur.recv < net_call.base.recv)
          => IsNone(net_metrics["download_speed"])
    /\ \A k \in {"upload_speed", "download_speed"} :
          ~IsNone(net_metrics[k]) => ~RatNeg(Val(net_metrics[k]))

(* C5: the first successful cycle after cycles in which psutil failed       *)
(* reports absent speeds, or speeds no greater than the bytes counted since *)
(* the last successful read divided by the time since that read (the        *)
(* counters did not go back during the outage).                             *)
C5_NoSpikeAfterOutage ==
    (/\ net_call.op = "ok" /\ net_call.outage /\ net_call.good.ok
     /\ NetCur.sent >= NetGood.sent /\ NetCur.recv >= NetGood.recv)
    => /\ \/ IsNone(net_metrics["upload_speed"])
          \/ RatLeq(Val(net_metrics["upload_speed"]),
                    Rat(NetCur.sent - NetGood.sent, (net_call.time - net_call.good.time) * MB))
       /\ \/ IsNone(net_metrics["download_speed"])
          \/ RatLeq(Val(net_metrics["download_speed"]),
                    Rat(NetCur.recv - NetGood.recv, (net_call.time - net_call.good.time) * MB))

(* C6: a call that reads the counters at a timestamp equal to last_time     *)
(* reports absent speeds and still moves the baseline to the values read.   *)
C6_ZeroElapsedAdvancesBaseline ==
    net_call.op = "zero_div"
    => /\ IsNone(net_metrics["upload_speed"])
       /\ IsNone(net_metrics["download_speed"])
       /\ last_bytes_sent = NetCur.sent
       /\ last_bytes_recv = NetCur.recv
       /\ last_time = net_call.time

----------------------------------------------------------------------------
(* The RAM collector called by one thread *)

InitRam == EnvInit /\ NetInitQuiet /\ RamInit /\ WorkerInitQuiet /\ AggInit /\ GpuInitQuiet /\ CpuInitQuiet /\ BootInitQuiet /\ FnInitQuiet

NextRam ==
    \/ Tick(MaxRamTicks) /\ UNCHANGED <<envVars, netVars, ramVars, workerVars, aggVars, gpuVars, cpuVars, bootVars, fnVars>>
    \/ RamGetMetrics /\ UNCHANGED <<now, envVars, netVars, workerVars, aggVars, gpuVars, cpuVars, bootVars, fnVars>>

SpecRam == InitRam /\ [][NextRam]_vars

(* C7: two RAM get_metrics calls on the platform with the LHM source made   *)
(* less than 5 seconds apart run the sensor query at most once between them *)
(* and report the same ram_temperature, whatever the query found.           *)
C7_CacheWithinTtl ==
    (/\ ram_call.called /\ ram_call.prev.called
     /\ ram_call.lhm /\ ram_call.prev.lhm
     /\ ram_call.time - ram_call.prev.time < lhm_ram_cache_ttl)
    => /\ ~(ram_call.queried /\ ram_call.prev.queried)
       /\ ram_call.temp = ram_call.prev.temp

(* C24: the ram_temperature the LHM query yields is the value of a sensor   *)
(* of type Temperature whose name matches RAM or Memory; a sensor of        *)
(* another type is never reported as ram_temperature.                       *)
C24_TemperatureSensorsOnly ==
    (ram_call.called /\ ram_call.lhm /\ ~IsNone(ram_call.temp))
    => \E sensor \in LhmRamSensors :
          /\ sensor.SensorType = "Temperature"
          /\ NameLikeRAM(sensor.Name) \/ NameLikeMemory(sensor.Name)
          /\ ram_call.temp = sensor.Value

(* C30: a call made 5 seconds or more after the cached temperature was      *)
(* stored runs the sensor query and does not serve the cached value; a      *)
(* value is served without a query only from a cache younger than 5         *)
(* seconds; a query that raises leaves the cached value and its timestamp   *)
(* unchanged.                                                               *)
C30_CacheExpiry ==
    [][(now' = now /\ ram_call'.lhm)
       => /\ (~IsNone(lhm_ram_temp_cache) /\ now - lhm_ram_cache_time >= lhm_ram_cache_ttl)
             => ram_call'.queried
          /\ ~ram_call'.queried
             => /\ ~IsNone(lhm_ram_temp_cache)
                /\ now - lhm_ram_cache_time < lhm_ram_cache_ttl
                /\ ram_call'.temp = lhm_ram_temp_cache
          /\ ram_call'.raised
             => /\ lhm_ram_temp_cache' = lhm_ram_temp_cache
                /\ lhm_ram_cache_time' = lhm_ram_cache_time
                /\ IsNone(ram_call'.temp)]_vars

\* the call made when the cached temperature was 5 seconds old or older ran
\* the query, which raised; the cache is as it was
C30_Witness ==
    /\ ram_call.called /\ ram_call.lhm
    /\ ram_call.queried /\ ram_call.raised
    /\ ram_call.time = now
    /\ ~IsNone(lhm_ram_temp_cache)
    /\ now - lhm_ram_cache_time >= lhm_ram_cache_ttl

----------------------------------------------------------------------------
(* The RAM collector called by several threads *)

NextRamThreads ==
    \/ Tick(MaxRamTicks) /\ UNCHANGED <<envVars, netVars, ramVars, workerVars, aggVars, gpuVars, cpuVars, bootVars, fnVars>>
    \/ \E th \in RamThreads : RamEnter(th) /\ UNCHANGED <<now, envVars, netVars, workerVars, aggVars, gpuVars, cpuVars, bootVars, fnVars>>
    \/ \E th \in RamThreads : RamQueryReturn(th) /\ UNCHANGED <<now, envVars, netVars, workerVars, aggVars, gpuVars, cpuVars, bootVars, fnVars>>

SpecRamThreads == InitRam /\ [][NextRamThreads]_vars

(* C10: the check-query-store sequence on the cache is guarded: while one   *)
(* thread runs the sensor query for an empty or expired cache, no other     *)
(* thread runs it too.                                                      *)
C10_QueryIsExclusive ==
    Cardinality({th \in RamThreads : ram_pc[th] = "query"}) <= 1

----------------------------------------------------------------------------
(* The polling worker driven by the main window *)

EnvInitQuiet ==
    /\ now = StartTime
    /\ platform = "Linux"
    /\ wmi_imported = FALSE

InitWorker == EnvInitQuiet /\ NetInitQuiet /\ RamInit /\ WorkerInit /\ AggInit /\ GpuInitQuiet /\ CpuInitQuiet /\ BootInitQuiet /\ FnInitQuiet

NextWorker ==
    \/ Tick(MaxWorkerTicks) /\ UNCHANGED <<envVars, netVars, ramVars, workerVars, aggVars, gpuVars, cpuVars, bootVars, fnVars>>
    \/ StartMetricsWorker /\ UNCHANGED <<now, envVars, netVars, ramVars, aggVars, gpuVars, cpuVars, bootVars, fnVars>>
    \/ UpdateConfig /\ UNCHANGED <<now, envVars, netVars, ramVars, aggVars, gpuVars, cpuVars, bootVars, fnVars>>
    \/ ExitApp /\ UNCHANGED <<now, envVars, netVars, ramVars, aggVars, gpuVars, cpuVars, bootVars, fnVars>>
    \/ JoinReturn /\ UNCHANGED <<now, envVars, netVars, ramVars, aggVars, gpuVars, cpuVars, bootVars, fnVars>>
    \/ JoinTimeout /\ UNCHANGED <<now, envVars, netVars, ramVars, aggVars, gpuVars, cpuVars, bootVars, fnVars>>
    \/ OnMetricsReady /\ UNCHANGED <<now, envVars, netVars, ramVars, aggVars, gpuVars, cpuVars, bootVars, fnVars>>
    \/ \E th \in WorkerThreads : WorkerLoop(th) /\ UNCHANGED <<now, envVars, netVars, ramVars, aggVars, gpuVars, cpuVars, bootVars, fnVars>>
    \/ \E th \in WorkerThreads : WorkerCollect(th) /\ UNCHANGED <<now, envVars, netVars, ramVars, aggVars, gpuVars, cpuVars, bootVars, fnVars>>
    \/ \E th \in WorkerThreads : WorkerCollectRaises(th) /\ UNCHANGED <<now, envVars, netVars, ramVars, aggVars, gpuVars, cpuVars, bootVars, fnVars>>
    \/ \E th \in WorkerThreads : WorkerEmit(th) /\ UNCHANGED <<now, envVars, netVars, ramVars, aggVars, gpuVars, cpuVars, bootVars, fnVars>>
    \/ \E th \in WorkerThreads : WorkerSleep(th) /\ UNCHANGED <<now, envVars, netVars, ramVars, aggVars, gpuVars, cpuVars, bootVars, fnVars>>

SpecWorker == InitWorker /\ [][NextWorker]_vars

(* C8: at most one worker thread runs the _run loop, so get_all_metrics is  *)
(* never executed by two threads at the same time.                          *)
C8_SingleWorker ==
    Cardinality({th \in WorkerThreads : w_pc[th] = "collect"}) <= 1

(* C9: snapshots are emitted through metrics_ready in the order in which    *)
(* get_all_metrics produced them.                                           *)
C9_OrderedDelivery ==
    \A i, j \in 1..Len(emit_log) : i < j => emit_log[i] < emit_log[j]

\* the steps of one worker thread, and the passing of time
WorkerStep(th) ==
    /\ \/ WorkerLoop(th)
       \/ WorkerCollect(th)
       \/ WorkerCollectRaises(th)
       \/ WorkerEmit(th)
       \/ WorkerSleep(th)
    /\ UNCHANGED <<now, envVars, netVars, ramVars, aggVars, gpuVars, cpuVars, bootVars, fnVars>>

WorkerTick == Tick(MaxWorkerTicks) /\ UNCHANGED <<envVars, netVars, ramVars, workerVars, aggVars, gpuVars, cpuVars, bootVars, fnVars>>

\* one run of the worker: started once, polling until exit_app
NextWorkerRun ==
    \/ WorkerTick
    \/ StartMetricsWorker /\ UNCHANGED <<now, envVars, netVars, ramVars, aggVars, gpuVars, cpuVars, bootVars, fnVars>>
    \/ ExitApp /\ UNCHANGED <<now, envVars, netVars, ramVars, aggVars, gpuVars, cpuVars, bootVars, fnVars>>
    \/ JoinReturn /\ UNCHANGED <<now, envVars, netVars, ramVars, aggVars, gpuVars, cpuVars, bootVars, fnVars>>
    \/ JoinTimeout /\ UNCHANGED <<now, envVars, netVars, ramVars, aggVars, gpuVars, cpuVars, bootVars, fnVars>>
    \/ OnMetricsReady /\ UNCHANGED <<now, envVars, netVars, ramVars, aggVars, gpuVars, cpuVars, bootVars, fnVars>>
    \/ \E th \in WorkerThreads : WorkerStep(th)

\* the worker under a fair scheduler: a started thread that can take a step
\* takes one (get_all_metrics and time.sleep end), and the clock advances
SpecWorkerFair ==
    /\ InitWorker
    /\ [][NextWorkerRun]_vars
    /\ WF_vars(WorkerTick)
    /\ \A th \in WorkerThreads : WF_vars(WorkerStep(th))

\* the thread is in the loop and the run has reached a bound of the model:
\* the snapshots are used up, or the clock stops before the next cycle is due
WorkerAtBound ==
    /\ IsAlive(thread)
    /\ \/ produced = MaxSnapshots
       \/ /\ now = StartTime + MaxWorkerTicks
          /\ (now - last_update_time) * 10 < interval

(* C13: a cycle that raises makes the thread emit error_occurred and no      *)
(* snapshot, and leaves it in the loop; and while running stays true every  *)
(* cycle begun, whatever it returns or raises, is followed by another one.  *)
C13_FailureDoesNotEndPolling ==
    /\ [][\A th \in WorkerThreads :
            (w_pc[th] = "collect" /\ w_pc'[th] # "collect")
            => \/ w_pc'[th] = "emit" /\ error_count' = error_count
               \/ /\ w_pc'[th] = "sleep"
                  /\ error_count' = error_count + 1
                  /\ emit_log' = emit_log]_vars
    /\ \A n \in 1 .. (MaxSnapshots + MaxErrors) :
          (worker_call.cycles = n /\ running)
          ~> (worker_call.cycles > n \/ ~running \/ WorkerAtBound)

\* a cycle has raised and a later cycle is under way
C13_Witness ==
    /\ error_count > 0
    /\ running
    /\ \E th \in WorkerThreads : w_pc[th] = "collect" /\ w_local[th].current_time > StartTime

(* C29: within one run of _run, the start times of two consecutive cycles   *)
(* that emitted a snapshot are at least interval apart, last_update_time    *)
(* being the start time of the emitting cycle; a cycle that raises leaves   *)
(* last_update_time alone, so the collection stays due and the next loop    *)
(* iteration makes the next attempt.                                        *)
C29_CycleSpacing ==
    /\ [][\A th \in WorkerThreads :
            (w_pc[th] = "emit" /\ w_pc'[th] = "sleep")
            => /\ last_update_time' = w_local[th].current_time
               /\ last_update_time # 0
                  => (w_local[th].current_time - last_update_time) * 10 >= interval]_vars
    /\ [][\A th \in WorkerThreads :
            (w_pc[th] = "collect" /\ w_pc'[th] = "sleep")
            => /\ last_update_time' = last_update_time
               /\ (now' - last_update_time') * 10 >= interval']_vars
    /\ [][(/\ \E th \in WorkerThreads : w_pc[th] = "sleep" /\ w_pc'[th] = "while"
           /\ (now - last_update_time) * 10 >= interval)
          => (now' - last_update_time') * 10 >= interval']_vars

\* two cycles of the run have emitted, the second one begun later than the
\* first, and a cycle has raised
C29_Witness ==
    /\ Len(emit_log) >= 2
    /\ error_count > 0
    /\ last_update_time > StartTime
    /\ worker_call.cycles >= 3

(* C14: once stop() has been called and start() not again, the worker emits *)
(* at most one further snapshot (that of the cycle in flight).              *)
C14_AtMostOneEmissionAfterStop ==
    worker_call.stopped => Len(worker_call.after_stop) <= 1

----------------------------------------------------------------------------
(* start_metrics_worker of the main window and of the desktop widget: the  *)
(* interval each passes to MetricsWorker.start.  config.json is read with  *)
(* json.load and not validated, so refresh_rate is any JSON number: a      *)
(* finite one, here in tenths of a second, or NaN.                         *)

Num(t) == [nan |-> FALSE, tenths |-> t]
NaN == [nan |-> TRUE, tenths |-> 0]

\* Python's a < b on floats: False whenever an operand is NaN
PyLt(a, b) == ~a.nan /\ ~b.nan /\ a.tenths < b.tenths

\* MainWindow.start_metrics_worker: max(0.1, min(interval, 5.0)); min and max
\* return their first argument unless the second is smaller / greater
MainWindowInterval(rate) ==
    LET inner == IF PyLt(Num(50), rate) THEN Num(50) ELSE rate
    IN IF PyLt(Num(1), inner) THEN inner ELSE Num(1)

\* HardwareWidget.start_metrics_worker: if interval < 0.1 ... elif interval > 5.0
WidgetInterval(rate) ==
    IF PyLt(rate, Num(1)) THEN Num(1)
    ELSE IF PyLt(Num(50), rate) THEN Num(50)
    ELSE rate

\* one start_metrics_worker call of either window with a configured rate
ClampCall ==
    \E rate \in {NaN} \cup {Num(t) : t \in (0 - MaxRate) .. MaxRate} :
        \E by \in {"main_window", "desktop_widget"} :
            /\ clamp_call' = [called |-> TRUE, by |-> by, rate |-> rate,
                              interval |-> IF by = "main_window" THEN MainWindowInterval(rate)
                                           ELSE WidgetInterval(rate)]
            /\ UNCHANGED scan_call

InitClamp == EnvInitQuiet /\ NetInitQuiet /\ RamInit /\ WorkerInitQuiet /\ AggInit
             /\ GpuInitQuiet /\ CpuInitQuiet /\ BootInitQuiet /\ FnInitQuiet

NextClamp ==
    \/ ClampCall /\ UNCHANGED <<now, envVars, netVars, ramVars, workerVars, aggVars, gpuVars, cpuVars, bootVars>>

SpecClamp == InitClamp /\ [][NextClamp]_vars

(* C22: the interval start_metrics_worker passes to MetricsWorker.start     *)
(* lies in [0.1, 5.0] seconds for every configured refresh_rate; a rate in  *)
(* the range is passed unchanged, a lower one becomes 0.1 and a higher one  *)
(* becomes 5.0.                                                             *)
C22_IntervalClamped ==
    clamp_call.called
    => /\ ~clamp_call.interval.nan
       /\ clamp_call.interval.tenths >= 1
       /\ clamp_call.interval.tenths <= 50
       /\ (~clamp_call.rate.nan /\ clamp_call.rate.tenths \in 1 .. 50)
            => clamp_call.interval = clamp_call.rate
       /\ (~clamp_call.rate.nan /\ clamp_call.rate.tenths < 1)
            => clamp_call.interval = Num(1)
       /\ (~clamp_call.rate.nan /\ clamp_call.rate.tenths > 50)
            => clamp_call.interval = Num(50)

----------------------------------------------------------------------------
(* Startup: hardware_monitor imports the four collector modules in turn,   *)
(* then HardwareMonitor() constructs the collectors.  The collectors'      *)
(* variables hold from the start the values construction gives them; boot  *)
(* tracks how far the startup has come.                                    *)

\* from .cpu_metrics import ..., .gpu_metrics, .ram_metrics, .network_metrics
BootModules == <<"cpu_metrics", "gpu_metrics", "ram_metrics", "network_metrics">>

\* the exception that escapes the import of a collector module, "none" if
\* the import completes.  cpu_metrics and gpu_metrics define logger before
\* the guarded "import wmi"; ram_metrics and network_metrics call
\* logger.info in their "except ImportError" branch before logger is bound.
\* A missing pynvml is swallowed by the bare except of gpu_metrics.
ModuleImport(mod, plat, wmi_installed) ==
    IF mod \in {"ram_metrics", "network_metrics"} /\ plat = "Windows" /\ ~wmi_installed
    THEN "NameError"
    ELSE "none"

\* the import of the next collector module
BootImport ==
    /\ boot.error = "none"
    /\ boot.imported < Len(BootModules)
    /\ boot' = IF ModuleImport(BootModules[boot.imported + 1], platform, boot.wmi_installed) = "none"
               THEN [boot EXCEPT !.imported = @ + 1]
               ELSE [boot EXCEPT !.error =
                        ModuleImport(BootModules[boot.imported + 1], platform, boot.wmi_installed)]

\* HardwareMonitor.__init__
BootConstruct ==
    /\ boot.error = "none"
    /\ boot.imported = Len(BootModules)
    /\ ~boot.constructed
    /\ boot' = [boot EXCEPT !.constructed = TRUE]

\* a process about to import hardware_monitor: the wmi package is installed
\* or not (it is only looked for on Windows)
InitStartup ==
    /\ \E installed \in BOOLEAN :
          boot = [wmi_installed |-> installed, imported |-> 0, constructed |-> FALSE,
                  error |-> "none"]
    /\ now = StartTime
    /\ platform \in Platforms
    /\ wmi_imported = (platform = "Windows" /\ boot.wmi_installed)
    /\ NetInitQuiet /\ RamInit /\ WorkerInitQuiet /\ AggInit /\ GpuInit /\ CpuInitQuiet
    /\ FnInitQuiet

NextStartup ==
    \/ BootImport /\ UNCHANGED <<now, envVars, netVars, ramVars, workerVars, aggVars, gpuVars, cpuVars, fnVars>>
    \/ BootConstruct /\ UNCHANGED <<now, envVars, netVars, ramVars, workerVars, aggVars, gpuVars, cpuVars, fnVars>>
    \/ boot.constructed /\ GetAllMetrics /\ UNCHANGED <<now, envVars, workerVars, gpuVars, cpuVars, bootVars, fnVars>>

SpecStartup == InitStartup /\ [][NextStartup]_vars

(* C18: with the GPU vendor library or the WMI module not installed, no     *)
(* error escapes the import of a collector module or the construction of    *)
(* HardwareMonitor, and the missing source is marked unavailable.           *)
C18_MissingDependencyTolerated ==
    /\ boot.error = "none"
    /\ (platform = "Windows" /\ ~boot.wmi_installed) => ~wmi_imported
    /\ gpu_call.nvml = "import_error" => ~NVIDIA_AVAILABLE

----------------------------------------------------------------------------
(* The CPU collector on its own *)

InitCpu == EnvInit /\ NetInitQuiet /\ RamInit /\ WorkerInitQuiet /\ AggInit
           /\ GpuInitQuiet /\ CpuInit /\ BootInitQuiet /\ FnInitQuiet

NextCpu ==
    \/ CpuCollect /\ UNCHANGED <<now, envVars, netVars, ramVars, workerVars, aggVars, gpuVars, bootVars, fnVars>>

SpecCpu == InitCpu /\ [][NextCpu]_vars

\* the first non-absent value of a tuple of Optionals, None if there is none
RECURSIVE FirstPresent(_)
FirstPresent(seq) ==
    IF seq = <<>> THEN None
    ELSE IF ~IsNone(Head(seq)) THEN Head(seq)
    ELSE FirstPresent(Tail(seq))

(* C16: for every key, the value a returning CPU get_metrics call reports   *)
(* is the first non-absent value in source order: sensor source, then       *)
(* OS-generic statistics, then base frequency.                              *)
C16_FirstNonAbsentInSourceOrder ==
    (cpu_call.called /\ ~cpu_call.raised)
    => \A k \in CpuSourceKeys : cpu_call.metrics[k] = FirstPresent(cpu_call.sources[k])

(* C25: a frequency derived from the CPU model string is reported only when *)
(* neither the OS-generic dynamic frequency nor the base frequency computed *)
(* at construction is available.                                            *)
C25_ModelEstimateLastResort ==
    (/\ cpu_call.called /\ ~cpu_call.raised /\ platform = "Darwin"
     /\ ~IsNone(cpu_call.sources["frequency"][1])
     /\ cpu_call.metrics["frequency"] = cpu_call.sources["frequency"][1])
    => /\ IsNone(cpu_call.sources["frequency"][2])
       /\ IsNone(cpu_call.sources["frequency"][3])

\* what the namespace holds when the collector is called: the enumeration
\* raises (None) or returns a list of sensors
InitScan ==
    /\ EnvInit /\ NetInitQuiet /\ RamInit /\ WorkerInitQuiet /\ AggInit
    /\ GpuInitQuiet /\ CpuInitQuiet /\ BootInitQuiet
    /\ clamp_call = [called |-> FALSE]
    /\ \E sensors \in {None} \cup {Some(l) : l \in SeqsUpTo(LhmCpuSensors, MaxScan)} :
          scan_call = [called |-> FALSE, sensors |-> sensors,
                       metrics |-> Reading(CpuSourceKeys, {}, 0)]

NextScan ==
    \/ LhmCpuScanCall /\ UNCHANGED <<now, envVars, netVars, ramVars, workerVars, aggVars, gpuVars, cpuVars, bootVars>>

SpecScan == InitScan /\ [][NextScan]_vars

(* C23: in the sensor scan, for each key, when several enumerated sensors   *)
(* match the key's preferred name pattern, the value of the first of them   *)
(* in enumeration order is the one reported.                                *)
C23_FirstMatchWins ==
    (scan_call.called /\ platform = "Windows" /\ ~IsNone(scan_call.sensors))
    => \A key \in CpuSourceKeys :
         LET l == Val(scan_call.sensors)
             matches == {i \in 1 .. Len(l) : CpuSensorPreferred(key, l[i])}
         IN matches # {}
            => scan_call.metrics[key] =
                 Some(l[CHOOSE i \in matches : \A j \in matches : i <= j].Value)

(* C27: in the sensor scan, when the enumerated list has a sensor matching  *)
(* the voltage, the clock or the 'CPU Total' load pattern, the key          *)
(* (voltage, frequency, usage) is filled, wherever the temperature sensors  *)
(* are in the list.                                                        *)
C27_ScanOrderIndependent ==
    (scan_call.called /\ platform = "Windows" /\ ~IsNone(scan_call.sensors))
    => \A key \in {"voltage", "frequency", "usage"} :
         (\E i \in 1 .. Len(Val(scan_call.sensors)) :
             \/ CpuSensorPreferred(key, Val(scan_call.sensors)[i])
             \/ CpuSensorGeneric(key, Val(scan_call.sensors)[i]))
         => ~IsNone(scan_call.metrics[key])

(* C17: on every platform branch a CPU get_metrics call returns a reading;  *)
(* a failing source call never makes it raise.                              *)
C17_CpuNeverRaises == cpu_call.called => ~cpu_call.raised

----------------------------------------------------------------------------
(* The GPU collector on its own *)

InitGpu == EnvInit /\ NetInitQuiet /\ RamInit /\ WorkerInitQuiet /\ AggInit
           /\ GpuInit /\ CpuInitQuiet /\ BootInitQuiet /\ FnInitQuiet

NextGpu ==
    \/ GpuCollect /\ UNCHANGED <<now, envVars, netVars, ramVars, workerVars, aggVars, cpuVars, bootVars, fnVars>>

SpecGpu == InitGpu /\ [][NextGpu]_vars

(* C15: in the mapping get_metrics returns, every key for which the vendor  *)
(* telemetry gave a value has that value; the platform's source only fills  *)
(* keys the vendor telemetry left absent.                                   *)
C15_VendorValueKept ==
    gpu_call.called
    => \A k \in DOMAIN gpu_call.nvidia :
          ~IsNone(gpu_call.nvidia[k]) => gpu_call.metrics[k] = gpu_call.nvidia[k]

\* a call in which the platform's source has another value for a key the
\* vendor telemetry gave, and a value for a key it left absent
C15_Witness ==
    /\ gpu_call.called
    /\ \E k \in DOMAIN gpu_call.extra :
          /\ ~IsNone(gpu_call.nvidia[k])
          /\ ~IsNone(gpu_call.extra[k])
          /\ gpu_call.extra[k] # gpu_call.nvidia[k]
    /\ \E k \in DOMAIN gpu_call.extra :
          /\ IsNone(gpu_call.nvidia[k])
          /\ ~IsNone(gpu_call.extra[k])
          /\ gpu_call.metrics[k] = gpu_call.extra[k]

(* C19: in every mapping get_metrics returns in which vram_used_gb,         *)
(* vram_total_gb and vram_usage_percent are all present,                    *)
(* vram_usage_percent = vram_used_gb / vram_total_gb * 100.                 *)
C19_VramConsistent ==
    LET m == gpu_call.metrics
    IN (/\ gpu_call.called
        /\ ~IsNone(m["vram_used_gb"])
        /\ ~IsNone(m["vram_total_gb"])
        /\ ~IsNone(m["vram_usage_percent"]))
       => /\ Val(m["vram_total_gb"]).num # 0
          /\ Val(m["vram_usage_percent"]).num * Val(m["vram_used_gb"]).den * Val(m["vram_total_gb"]).num
               = 100 * Val(m["vram_used_gb"]).num * Val(m["vram_total_gb"]).den
                     * Val(m["vram_usage_percent"]).den

\* a call that returns the three VRAM keys, with some VRAM in use
C19_Witness ==
    /\ gpu_call.called
    /\ ~IsNone(gpu_call.metrics["vram_used_gb"])
    /\ ~IsNone(gpu_call.metrics["vram_total_gb"])
    /\ ~IsNone(gpu_call.metrics["vram_usage_percent"])
    /\ Val(gpu_call.metrics["vram_used_gb"]).num > 0

(* C26: when the mandatory reads of _get_nvidia_metrics succeed, each of the *)
(* three optional keys (memory temperature, hotspot temperature, fan speed) *)
(* is present exactly when its own read succeeded, and every mandatory key  *)
(* keeps the value read.                                                    *)
C26_OptionalReadsIndependent ==
    (gpu_call.called /\ gpu_call.mandatory)
    => /\ \A k \in GpuOptionalKeys :
             gpu_call.nvidia[k] = IF k \in gpu_call.optional THEN Some(Rat(1, 1)) ELSE None
       /\ \A k \in GpuKeys \ GpuOptionalKeys : ~IsNone(gpu_call.nvidia[k])

\* a call whose hotspot read failed while the reads before and after it
\* succeeded
C26_Witness ==
    /\ gpu_call.called /\ gpu_call.mandatory
    /\ gpu_call.optional = {"memory_temperature", "fan_speed"}
    /\ ~IsNone(gpu_call.nvidia["fan_speed"])
    /\ IsNone(gpu_call.nvidia["hotspot_temperature"])

(* C20: when the vendor handle was not acquired at construction (library    *)
(* missing, nvmlInit or the acquisition failed), the flag is off, there is  *)
(* no handle, no get_metrics call makes a vendor-library read or takes a    *)
(* vendor value, and the flag never returns from off to on.                 *)
C20_VendorStaysDisabled ==
    /\ [][~NVIDIA_AVAILABLE => ~NVIDIA_AVAILABLE']_vars
    /\ []((gpu_call.nvml # "ok" \/ gpu_call.acquire # "ok")
          => /\ ~NVIDIA_AVAILABLE
             /\ IsNone(handle)
             /\ gpu_call.nvml_reads = 0
             /\ \A k \in DOMAIN gpu_call.nvidia : IsNone(gpu_call.nvidia[k]))

\* a get_metrics call made after the acquisition failed at construction
C20_Witness ==
    /\ gpu_call.called
    /\ gpu_call.nvml = "ok"
    /\ gpu_call.acquire \in {"driver_not_loaded", "no_permission", "error"}
    /\ \E k \in DOMAIN gpu_call.metrics : ~IsNone(gpu_call.metrics[k])

----------------------------------------------------------------------------
(* The aggregator over the four collectors *)

Init == EnvInit /\ NetInitQuiet /\ RamInit /\ WorkerInitQuiet /\ AggInit /\ GpuInitQuiet /\ CpuInitQuiet /\ BootInitQuiet /\ FnInitQuiet

Next ==
    \/ Tick(MaxAggTicks) /\ UNCHANGED <<envVars, netVars, ramVars, workerVars, aggVars, gpuVars, cpuVars, bootVars, fnVars>>
    \/ GetAllMetrics /\ UNCHANGED <<now, envVars, workerVars, gpuVars, cpuVars, bootVars, fnVars>>

Spec == Init /\ [][Next]_vars

(* C1: when exactly one collector raised in a get_all_metrics call, the     *)
(* snapshot has the other three categories with the values their collectors *)
(* return, and the category that raised with every key absent.              *)
C1_FaultIsolation ==
    \A bad \in Categories :
        (agg_call.called /\ agg_call.raised = {bad})
        => /\ \A c \in Categories \ {bad} : snapshot[c] = agg_call.would[c]
           /\ snapshot[bad] = Reading(CategoryKeys(bad), {}, 0)

(* C2: every snapshot has, in each of the four categories, every key fixed  *)
(* for the category (the value may be None).                                *)
C2_KeysPresent ==
    \A c \in Categories : CategoryKeys(c) \subseteq DOMAIN snapshot[c]

(* C11: every get_all_metrics call returns a mapping with the four category *)
(* names, whatever the collectors did; no exception reaches the caller.     *)
C11_AggregatorNeverThrows ==
    agg_call.called
    => /\ agg_call.outcome = "returned"
       /\ DOMAIN snapshot = Categories

\* a call in which a collector raised has returned
C11_Witness ==
    /\ agg_call.called
    /\ agg_call.raised # {}
    /\ agg_call.outcome = "returned"
    /\ DOMAIN snapshot = Categories

(* C12: in every get_all_metrics call each of the four collectors'          *)
(* get_metrics is invoked, also when a collector invoked earlier raised.    *)
C12_EachCollectorInvoked ==
    agg_call.called => agg_call.invoked = Categories

====
